---- MODULE Spec2Model ----
(***************************************************************************)
(* The wake/session state machine and inference-gating pipeline of twin:   *)
(* main.py (process_buffer, main), generator.py (process_result,           *)
(* run_inference, process_user_text), command.py (execute_commands,        *)
(* execute_single_command, is_in_cooldown) and the HTTP /command handler   *)
(* of twin/web/webserver.py.                                               *)
(*                                                                         *)
(* Units.  Wall-clock time is in whole seconds.  Risk scores are in tenths *)
(* (0.5 is 5).  Search distances are in hundredths (0.30 is 30); fuzzy     *)
(* similarity is the 0..100 score of rapidfuzz.                            *)
(***************************************************************************)
EXTENDS Integers, Sequences, FiniteSets, TLC

(***************************************************************************)
(* Python values.  None, numbers, booleans, strings, lists and dicts are   *)
(* tagged so that isinstance() is a test of the tag.  A dict is a function *)
(* from its keys; Option values of the state (None or a value) are the     *)
(* empty or the one-element sequence.                                      *)
(***************************************************************************)
PyNone == [t |-> "none"]
PyNum(n) == [t |-> "num", n |-> n]
PyBool(b) == [t |-> "bool", b |-> b]
PyStr(s) == [t |-> "str", s |-> s]
PyList(l) == [t |-> "list", l |-> l]
PyDict(d) == [t |-> "dict", d |-> d]

None == <<>>
Some(x) == <<x>>

\* dict.get(key, default)
Get(d, key, default) == IF key \in DOMAIN d THEN d[key] ELSE default

\* The outcome of a call: a returned value, or the exception it raised.
Returned(v) == [exc |-> "", v |-> v]
Raised(e) == [exc |-> e, v |-> PyNone]

(***************************************************************************)
(* The texts an LLM reply is drawn from, and json.loads on them.           *)
(* JsonDocuments lists the texts that are JSON documents, each with the    *)
(* value it encodes; json.loads raises JSONDecodeError on every other      *)
(* text.                                                                   *)
(***************************************************************************)
CmdLights == "lights --power on"
CmdReboot == "sudo reboot"

TxtGarbage == "not json at all"
TxtNumber == "42"
TxtArray == "[\"lights --power on\"]"
TxtQuoted == "\"lights --power on\""
TxtLow == "{\"commands\": [\"lights --power on\"], \"risk\": 0.1, \"confirmed\": false}"
TxtHigh == "{\"commands\": [\"lights --power on\", \"sudo reboot\"], \"risk\": 0.9, \"confirmed\": false}"
TxtHighConfirmed == "{\"commands\": [\"sudo reboot\", \"lights --power on\"], \"risk\": 0.9, \"confirmed\": true}"
TxtNewFormat == "{\"command\": \"lights --power on\", \"risk\": 0.5}"
TxtRiskWord == "{\"commands\": [\"lights --power on\"], \"risk\": \"high\"}"
TxtNoCommands == "{\"commands\": [], \"response\": \"ok\", \"risk\": 0.1}"
\* <fence> stands for the three backquotes of a Markdown code fence.
TxtFenced == "<fence>json{\"commands\": [\"lights --power on\"], \"risk\": 0.1, \"confirmed\": false}<fence>"

JsonDocuments ==
    (TxtNumber :> PyNum(42))
 @@ (TxtArray :> PyList(<<PyStr(CmdLights)>>))
 @@ (TxtQuoted :> PyStr(CmdLights))
 @@ (TxtLow :> PyDict([commands |-> PyList(<<PyStr(CmdLights)>>),
                       risk |-> PyNum(1), confirmed |-> PyBool(FALSE)]))
 @@ (TxtHigh :> PyDict([commands |-> PyList(<<PyStr(CmdLights), PyStr(CmdReboot)>>),
                        risk |-> PyNum(9), confirmed |-> PyBool(FALSE)]))
 @@ (TxtHighConfirmed :> PyDict([commands |-> PyList(<<PyStr(CmdReboot), PyStr(CmdLights)>>),
                                 risk |-> PyNum(9), confirmed |-> PyBool(TRUE)]))
 @@ (TxtRiskWord :> PyDict([commands |-> PyList(<<PyStr(CmdLights)>>),
                            risk |-> PyStr("high")]))
 @@ (TxtNewFormat :> PyDict([command |-> PyStr(CmdLights), risk |-> PyNum(5)]))
 @@ (TxtNoCommands :> PyDict([commands |-> PyList(<<>>), response |-> PyStr("ok"),
                              risk |-> PyNum(1)]))

json_loads(s) ==
    IF s \in DOMAIN JsonDocuments THEN Returned(JsonDocuments[s])
    ELSE Raised("JSONDecodeError")

\* clean_gpt_response: a reply that starts with <fence>json and ends with <fence>
\* loses the fence; any other reply is returned as it is.
FencedReplies == (TxtFenced :> TxtLow)

clean_gpt_response(raw_response) ==
    IF raw_response \in DOMAIN FencedReplies THEN FencedReplies[raw_response]
    ELSE raw_response

(***************************************************************************)
(* generator.process_result                                                *)
(***************************************************************************)
ResponseKeys == {"commands", "response", "risk", "confirmed",
                 "requires_audio_feedback", "confidence", "intent_reasoning"}

\* The fallback with a risk of 0.6.
FallbackAtHigherRisk(text) ==
    PyDict([commands |-> PyList(<<PyStr("echo " \o text)>>),
            response |-> PyStr(text),
            risk |-> PyNum(6),
            confirmed |-> PyBool(FALSE),
            requires_audio_feedback |-> PyBool(FALSE),
            confidence |-> PyNum(5),
            intent_reasoning |-> PyStr("")])

\* The fallback without its echo command.
FallbackWithoutEcho(text) ==
    PyDict([commands |-> PyList(<<>>),
            response |-> PyStr(text),
            risk |-> PyNum(5),
            confirmed |-> PyBool(FALSE),
            requires_audio_feedback |-> PyBool(FALSE),
            confidence |-> PyNum(5),
            intent_reasoning |-> PyStr("")])

\* The record returned when the text is not valid JSON (lines 40-48).
FallbackResponse(text) ==
    PyDict([commands |-> PyList(<<PyStr("echo " \o text)>>),
            response |-> PyStr(text),
            risk |-> PyNum(5),
            confirmed |-> PyBool(FALSE),
            requires_audio_feedback |-> PyBool(FALSE),
            confidence |-> PyNum(5),
            intent_reasoning |-> PyStr("")])

\* The record returned when the value is not a dict (lines 53-61).
DefaultResponse ==
    PyDict([commands |-> PyList(<<>>),
            response |-> PyStr(""),
            risk |-> PyNum(5),
            confirmed |-> PyBool(FALSE),
            requires_audio_feedback |-> PyBool(FALSE),
            confidence |-> PyNum(5),
            intent_reasoning |-> PyStr("")])

\* Lines 77-83: the command strings of a "command" list.
RECURSIVE ExtractCommands(_)
ExtractCommands(c) ==
    IF c = <<>> THEN <<>>
    ELSE LET item == Head(c)
             rest == ExtractCommands(Tail(c))
         IN  IF item.t = "dict" /\ "command" \in DOMAIN item.d
             THEN <<item.d["command"]>> \o rest
             ELSE IF item.t = "str" THEN <<item>> \o rest
             ELSE rest

\* Lines 66-87 without the branch of the original format (lines 66-68).
CommandsOfNewFormat(d) ==
    IF "command" \in DOMAIN d
    THEN LET c == d["command"]
         IN  IF c.t = "list" THEN PyList(ExtractCommands(c.l))
             ELSE IF c.t = "str" THEN PyList(<<c>>)
             ELSE PyList(<<>>)
    ELSE PyList(<<>>)

\* Lines 66-87.
CommandsOf(d) ==
    IF "commands" \in DOMAIN d /\ d["commands"].t = "list"
    THEN d["commands"]
    ELSE IF "command" \in DOMAIN d
    THEN LET c == d["command"]
         IN  IF c.t = "list" THEN PyList(ExtractCommands(c.l))
             ELSE IF c.t = "str" THEN PyList(<<c>>)
             ELSE PyList(<<>>)
    ELSE PyList(<<>>)

\* Lines 91-99.
NormalizedResponse(d) ==
    PyDict([commands |-> CommandsOf(d),
            response |-> Get(d, "response", PyStr("")),
            risk |-> Get(d, "risk", PyNum(5)),
            confirmed |-> Get(d, "confirmed", PyBool(FALSE)),
            requires_audio_feedback |-> Get(d, "requires_audio_feedback", PyBool(FALSE)),
            confidence |-> Get(d, "confidence", PyNum(5)),
            intent_reasoning |-> Get(d, "intent_reasoning", PyStr(""))])

\* Lines 34-38: a str is parsed; the except clause catches JSONDecodeError only.
LoadRawResult(raw_result) ==
    IF raw_result.t = "str" THEN json_loads(raw_result.s) ELSE Returned(raw_result)

process_result(raw_result) ==
    LET loaded == LoadRawResult(raw_result)
    IN  IF loaded.exc = "JSONDecodeError" THEN Returned(FallbackResponse(raw_result.s))
        ELSE IF loaded.exc # "" THEN loaded
        ELSE IF loaded.v.t # "dict" THEN Returned(DefaultResponse)
        ELSE Returned(NormalizedResponse(loaded.v.d))

(***************************************************************************)
(* Configuration (twin/core/config.py, generator.py) and the bounds of the *)
(* model.                                                                  *)
(***************************************************************************)
WAKE_TIMEOUT == 24
WAKE_DISTANCE_THRESHOLD == 30
FUZZY_SIMILARITY_THRESHOLD == 60
AMY_DISTANCE_THRESHOLD == 110
NA_DISTANCE_THRESHOLD == 140
HISTORY_BUFFER_SIZE == 4
WAKE_PHRASES == <<"Hey computer.", "Hey twin">>

\* --execute, RISK_THRESHOLD and COOLDOWN_PERIOD are set when the process starts.
RiskThresholds == {5}
CooldownPeriods == {30}

\* The clock starts at StartTime (time.time() is never 0) and advances by
\* TickSeconds up to MaxTime.
StartTime == 1
TickSeconds == 25
MaxTime == 51
\* Inputs of one run: utterances transcribed, external commands queued and
\* HTTP requests served.
MaxInputs == 2

\* Transcribed texts, as their words.
Texts == {<<"hey", "computer", "lights">>}

\* What the search collaborator may return for one query of the "wake"
\* collection, and the token_set_ratio of one window against each wake phrase.
WakeResultChoices == {<< <<"Hey computer.", 29>> >>, << <<"Hey computer.", 30>> >>}
FuzzyChoices == {<<59, 59>>, <<60, 30>>}
\* What it may return for the "amygdala" and the "na" collection.
AmygdalaChoices == {<< <<"lights", 109>> >>, << <<"lights", 110>> >>}
AccumbensChoices == {<< <<CmdLights, 140>> >>,
                     << <<CmdLights, 139>>, <<CmdReboot, 140>> >>}
\* What it may return for the "tools" collection.
ToolsChoices == {<<>>, << <<"lights --status", 139>>, <<"thermostat --status", 140>> >>}
\* What model.remote_inference may return: None (an error, a timeout, a
\* non-200 status) or the reply text.
LLMReplies == {None} \cup {Some(x) : x \in {TxtGarbage, TxtNumber, TxtLow, TxtHigh,
                                            TxtHighConfirmed, TxtRiskWord}}

\* What the shell may do with the commands of one pipeline: every subprocess
\* exits with 0, or those of one command exit with 1, or starting them raises.
NoShell == [command |-> "", answer |-> "exit 0"]
Shells == {NoShell, [command |-> CmdReboot, answer |-> "exit 1"],
           [command |-> CmdReboot, answer |-> "raise"]}

VARIABLES
    execute,                \* args.execute
    risk_threshold,         \* context['RISK_THRESHOLD']
    cooldown_period,        \* context['COOLDOWN_PERIOD']
    now,                    \* time.time()
    is_awake,               \* main.is_awake
    wake_start_time,        \* main.wake_start_time: None or a time
    did_inference,          \* main.did_inference
    session_data,           \* context['session_data']: None or the session record
    command_queue,          \* main.command_queue
    history_buffer,         \* main.history_buffer, a deque of HISTORY_BUFFER_SIZE texts
    last_executed_commands, \* command.last_executed_commands
    pc,                     \* where the loop of main() is suspended
    pending,                \* the transcriptions the for loop has still to process
    cur,                    \* the locals of the utterance suspended at run_inference
    hpc,                    \* where handle_command is suspended
    hcur,                   \* its locals
    n_sessions,             \* session ids handed out (uuid4 is fresh each time)
    n_inputs,               \* inputs consumed so far
    shell_calls,            \* None, or the subprocess started last: command and time
    reported,               \* the session ids passed to generate_quality_control_report
    last_iter,              \* the loop iteration begun last
    obs,                    \* the pipeline completed last
    raw_result,             \* the argument of a call of process_result on its own
    outcome,                \* None, or what that call returned or raised
    room_call               \* a command, its context, and what became of the command

vars == <<execute, risk_threshold, cooldown_period, now, is_awake, wake_start_time,
          did_inference, session_data, command_queue, history_buffer,
          last_executed_commands, pc,
          pending, cur, hpc, hcur, n_sessions, n_inputs, shell_calls,
          reported, last_iter, obs, raw_result, outcome, room_call>>

config_vars == <<execute, risk_threshold, cooldown_period>>
call_vars == <<raw_result, outcome, room_call>>
loop_vars == <<is_awake, wake_start_time, did_inference, pc, pending, cur, last_iter>>
http_vars == <<hpc, hcur>>

(***************************************************************************)
(* generator.process_user_text: wake detection (lines 188-211) and the     *)
(* inference gate (lines 221-243).                                         *)
(***************************************************************************)
\* Lines 190-194: the sliding windows of a text.
Windows(words) ==
    LET n == Len(words)
        window_size == IF n < 2 THEN n ELSE 2
    IN  [i \in 1..(n - window_size + 1) |-> SubSeq(words, i, i + window_size - 1)]

\* What the collaborators may answer for the windows of a text.
SignalsFor(words) ==
    [DOMAIN Windows(words) -> [wake_results : WakeResultChoices, similarity : FuzzyChoices]]

\* Line 196.
relevant_wake(wake_results) ==
    SelectSeq(wake_results, LAMBDA r : r[2] < WAKE_DISTANCE_THRESHOLD)

\* Lines 198-202.
fuzzy_matches(similarity) ==
    {i \in DOMAIN WAKE_PHRASES : similarity[i] >= FUZZY_SIMILARITY_THRESHOLD}

\* Line 204 with "or" in the place of "and".
WindowWakesOnEither(signal) ==
    relevant_wake(signal.wake_results) # <<>> \/ fuzzy_matches(signal.similarity) # {}

\* Line 204.
WindowWakes(signal) ==
    relevant_wake(signal.wake_results) # <<>> /\ fuzzy_matches(signal.similarity) # {}

\* Lines 193-207: the loop stops at the first window that wakes.
WakeDetected(signals) == \E i \in DOMAIN signals : WindowWakes(signals[i])

\* Line 239.
relevant_tools(tools_results) ==
    SelectSeq(tools_results, LAMBDA r : r[2] < NA_DISTANCE_THRESHOLD)

\* Lines 245-258: past the gate, every relevant tool command is started as a
\* subprocess by run_command_and_capture (command.py lines 264-298), which
\* consults neither the execute flag nor the cooldown registry.
ToolsRun(tools_results) ==
    [i \in DOMAIN relevant_tools(tools_results) |-> relevant_tools(tools_results)[i][1]]

\* Line 260: the candidate commands of the prompt are the snippets of every
\* accumbens result.
combined_commands(accumbens_results) ==
    [i \in DOMAIN accumbens_results |-> accumbens_results[i][1]]

\* Lines 213-219 without the second check of is_awake.
ConsidersInferenceAfterWake(is_awake_arg, force_awake) == TRUE

\* Lines 213-219: past wake detection, process_user_text goes on to the
\* searches only if it was called with is_awake or force_awake.
ConsidersInference(is_awake_arg, force_awake) == is_awake_arg \/ force_awake

\* Lines 237-238.
relevant_amygdala(amygdala_results) ==
    SelectSeq(amygdala_results, LAMBDA r : r[2] < AMY_DISTANCE_THRESHOLD)

relevant_accumbens(accumbens_results) ==
    SelectSeq(accumbens_results, LAMBDA r : r[2] < NA_DISTANCE_THRESHOLD)

\* Line 242: inference is skipped unless both lists are non-empty.
InferenceNeeded(amygdala_results, accumbens_results) ==
    relevant_amygdala(amygdala_results) # <<>> /\ relevant_accumbens(accumbens_results) # <<>>

\* generator.run_inference, lines 144-159: None when the model returned nothing.
run_inference(reply) ==
    IF reply = None \/ reply[1] = "" THEN None
    ELSE LET result == process_result(PyStr(clean_gpt_response(reply[1])))
         IN  IF result.exc # "" THEN None ELSE Some(result.v)

(***************************************************************************)
(* The session record (main.py lines 326-337) and command.py.  The         *)
(* operators of command.py work on st, the part of the state they read and *)
(* write: the session, the cooldown registry, the subprocesses started     *)
(* (shell_calls) and those started by the pipeline under way (invoked).    *)
(***************************************************************************)
\* A session record whose id is not fresh.
SessionReusingId(id) ==
    [session_id |-> 1, after_transcriptions |-> <<>>, inferences |-> <<>>,
     commands_executed |-> <<>>, complete_transcription |-> <<>>, end_time |-> None]

\* Of the session record, 'start_time', 'before_transcriptions',
\* 'vectorstore_results', 'user_feedback' and 'source_commands' are left out:
\* nothing reads them before the report.
NewSession(id) ==
    [session_id |-> id, after_transcriptions |-> <<>>, inferences |-> <<>>,
     commands_executed |-> <<>>, complete_transcription |-> <<>>, end_time |-> None]

\* generator.py lines 282-288 and main.py lines 350-356.
AppendInference(sess, entry) ==
    IF sess = None THEN sess
    ELSE Some([sess[1] EXCEPT !.inferences = Append(@, entry)])

\* if 'session_data' in context and context['session_data'] is not None: ...
AppendCommandEntry(sess, entry) ==
    IF sess = None THEN sess
    ELSE Some([sess[1] EXCEPT !.commands_executed = Append(@, entry)])

\* Lines 290-294 without the append.
TranscriptionNotRecorded(sess, text) == sess

\* main.py lines 290-294.
AppendTranscription(sess, text) ==
    IF sess = None THEN sess
    ELSE Some([sess[1] EXCEPT !.after_transcriptions = Append(@, text)])

\* deque(maxlen=HISTORY_BUFFER_SIZE).append: a full deque drops its oldest item.
DequeAppend(buffer, text) ==
    LET appended == Append(buffer, text)
    IN  IF Len(appended) > HISTORY_BUFFER_SIZE THEN Tail(appended) ELSE appended

RECURSIVE DequeExtend(_, _)
DequeExtend(buffer, texts) ==
    IF texts = <<>> THEN buffer
    ELSE DequeExtend(DequeAppend(buffer, Head(texts)), Tail(texts))

\* " ".join(texts): a text is the sequence of its words.
RECURSIVE Join(_)
Join(texts) == IF texts = <<>> THEN <<>> ELSE Head(texts) \o Join(Tail(texts))

\* command.is_in_cooldown, lines 35-43.
is_in_cooldown(command_str, period, registry, t) ==
    /\ command_str \in DOMAIN registry
    /\ t - registry[command_str] < period

(***************************************************************************)
(* command.execute_single_command lines 113-171: the room of a command and *)
(* its angle brackets.  A command string is the sequence of its pieces:    *)
(* "<" and ">" are pieces of their own, every other piece is a run of      *)
(* characters without angle brackets, so that <room_name> is the three     *)
(* pieces "<", "room_name", ">".                                           *)
(***************************************************************************)
RoomPlaceholder == <<"<", "room_name", ">">>

\* Python's ``word in command_str'' for a piece.
Contains(command_str, word) == \E i \in DOMAIN command_str : command_str[i] = word

\* "<room_name>" in command_str.
HasRoomPlaceholder(command_str) ==
    \E i \in 1..(Len(command_str) - 2) : SubSeq(command_str, i, i + 2) = RoomPlaceholder

\* command_str.replace("<room_name>", room_location), line 161.
RECURSIVE StrReplace(_, _)
StrReplace(command_str, room_location) ==
    IF Len(command_str) < 3 THEN command_str
    ELSE IF SubSeq(command_str, 1, 3) = RoomPlaceholder
         THEN <<room_location>>
              \o StrReplace(SubSeq(command_str, 4, Len(command_str)), room_location)
         ELSE <<Head(command_str)>> \o StrReplace(Tail(command_str), room_location)

\* The position of the first ">" of a string, 0 if it has none.
RECURSIVE FirstClose(_)
FirstClose(command_str) ==
    IF command_str = <<>> THEN 0
    ELSE IF Head(command_str) = ">" THEN 1
    ELSE IF FirstClose(Tail(command_str)) = 0 THEN 0
    ELSE FirstClose(Tail(command_str)) + 1

\* re.sub with count=1: only the leftmost match is replaced.
RECURSIVE ReSubFirstOnly(_)
ReSubFirstOnly(command_str) ==
    IF command_str = <<>> THEN <<>>
    ELSE IF Head(command_str) = "<" /\ FirstClose(Tail(command_str)) # 0
         THEN <<"office">>
              \o SubSeq(command_str, FirstClose(Tail(command_str)) + 2, Len(command_str))
         ELSE <<Head(command_str)>> \o ReSubFirstOnly(Tail(command_str))

\* re.sub(r"<[^>]*>", "office", command_str), line 167: from the left, every
\* "<" that has a ">" after it is replaced, up to the first such ">", by
\* "office"; the search goes on behind the match.
RECURSIVE ReSub(_)
ReSub(command_str) ==
    IF command_str = <<>> THEN <<>>
    ELSE IF Head(command_str) = "<" /\ FirstClose(Tail(command_str)) # 0
         THEN <<"office">>
              \o ReSub(SubSeq(command_str, FirstClose(Tail(command_str)) + 2,
                              Len(command_str)))
         ELSE <<Head(command_str)>> \o ReSub(Tail(command_str))

\* Lines 165-171.
Sanitize(command_str) ==
    IF Contains(command_str, "<") \/ Contains(command_str, ">")
    THEN ReSub(command_str)
    ELSE command_str

\* Lines 120-127, priority 1: the room the room manager resolves from the
\* last transcription of the open session.  A transcription is given by the
\* room resolve_room_from_transcript finds in it, "" if it finds none.
RoomFromTranscript(ctx) ==
    IF ctx.transcriptions # None /\ ctx.transcriptions[1] # <<>> /\ ctx.room_manager
    THEN ctx.transcriptions[1][Len(ctx.transcriptions[1])]
    ELSE ""

\* Lines 135-144, priority 3: the first of the four room words found in
\* self_text, given by the set of room words it contains.
RoomFromSelfText(self_text) ==
    IF "office" \in self_text THEN "office"
    ELSE IF "kitchen" \in self_text THEN "kitchen"
    ELSE IF "bedroom" \in self_text THEN "bedroom"
    ELSE IF "media" \in self_text THEN "media"
    ELSE ""

\* Lines 115-149: the four sources in their order; "" is Python's None.
RoomLocation(ctx) ==
    IF RoomFromTranscript(ctx) # "" THEN RoomFromTranscript(ctx)
    ELSE IF ctx.detected_location # "" THEN ctx.detected_location
    ELSE IF RoomFromSelfText(ctx.self_text) # "" THEN RoomFromSelfText(ctx.self_text)
    ELSE "office"

\* Lines 113-171: what becomes of a non-empty command string before the
\* cooldown check: it is refused by the room manager (line 157), or it goes
\* on with its room filled in and its angle brackets sanitized.
PrepareCommand(command_str, ctx) ==
    IF (Contains(command_str, "lights") \/ Contains(command_str, "thermostat"))
       /\ HasRoomPlaceholder(command_str)
    THEN IF ctx.room_manager /\ ~ctx.valid
         THEN [refused |-> TRUE, command_str |-> command_str]
         ELSE [refused |-> FALSE,
               command_str |-> Sanitize(StrReplace(command_str, RoomLocation(ctx)))]
    ELSE [refused |-> FALSE, command_str |-> Sanitize(command_str)]

\* No call of execute_single_command on its own.
NoRoomCall == [command_str |-> <<>>, ctx |-> <<>>, prepared |-> <<>>]

\* The subprocess collaborator keeps the call made last.
RecordCall(calls, command_str, t) == Some([command |-> command_str, at |-> t])

\* Lines 100-111: the command string of a list item.
CommandStr(command) ==
    IF command.t = "dict"
    THEN LET cli == Get(command.d, "cli", PyStr(""))
         IN  IF cli.t = "str" /\ cli.s # "" THEN cli.s
             ELSE LET c == Get(command.d, "command", PyStr(""))
                  IN  IF c.t = "str" THEN c.s ELSE ""
    ELSE IF command.t = "str" THEN command.s
    ELSE ""

\* What asyncio.create_subprocess_shell and the subprocess do for a command.
ShellAnswer(shell, command_str) ==
    IF command_str = shell.command THEN shell.answer ELSE "exit 0"

\* Lines 225-260: the entry of commands_executed for a subprocess that exited
\* (lines 243-251) or could not be started (the except clause, lines 253-262).
CommandEntry(command_str, answer) ==
    [command |-> command_str,
     success |-> (answer = "exit 0"),
     exit_code |-> CASE answer = "exit 0" -> 0
                     [] answer = "exit 1" -> 1
                     [] OTHER -> -1]

\* command.execute_single_command, lines 94-262: an empty command and a
\* command in cooldown start no subprocess; any other one is passed to the
\* shell and recorded in the open session, whatever the outcome; no
\* exception leaves the function.  The registry is read and never written.
\* The command strings of ReplyTexts hold no angle bracket, so lines 113-171
\* (PrepareCommand) leave them as they are.
execute_single_command(st, command, period) ==
    LET command_str == CommandStr(command)
    IN  IF command_str = "" THEN st
        ELSE IF is_in_cooldown(command_str, period, st.registry, now) THEN st
        ELSE [st EXCEPT !.sess = AppendCommandEntry(st.sess,
                                     CommandEntry(command_str,
                                                  ShellAnswer(st.shell, command_str))),
                        !.calls = RecordCall(st.calls, command_str, now),
                        !.invoked = Append(st.invoked, command_str)]

\* Lines 83-85 with a loop that ends at the first command that fails.
RECURSIVE ExecuteUntilFailure(_, _, _)
ExecuteUntilFailure(st, commands, period) ==
    IF commands = <<>> THEN st
    ELSE IF ShellAnswer(st.shell, CommandStr(Head(commands))) # "exit 0"
         THEN execute_single_command(st, Head(commands), period)
         ELSE ExecuteUntilFailure(execute_single_command(st, Head(commands), period),
                                  Tail(commands), period)

\* Lines 83-85.
RECURSIVE ExecuteEach(_, _, _)
ExecuteEach(st, commands, period) ==
    IF commands = <<>> THEN st
    ELSE ExecuteEach(execute_single_command(st, Head(commands), period),
                     Tail(commands), period)

\* Lines 74-78: the risk check of the new calling convention.
RiskRefused(risk_level, requires_confirmation) ==
    risk_level > risk_threshold /\ ~requires_confirmation

\* command.execute_commands, lines 45-92.  old_convention: the second argument
\* is the int COOLDOWN_PERIOD (generator.py:297), so risk_level is reset to 0.0
\* and requires_confirmation to False.
execute_commands(st, commands, old_convention, requires_confirmation, risk_level) ==
    LET risk == IF old_convention THEN 0 ELSE risk_level
        confirmation == IF old_convention THEN FALSE ELSE requires_confirmation
    IN  IF commands = <<>> THEN st
        ELSE IF RiskRefused(risk, confirmation) THEN st
        ELSE ExecuteEach(st, commands, cooldown_period)

\* Python truthiness of the values a response field holds here.
Truthy(v) ==
    CASE v.t = "bool" -> v.b
      [] v.t = "num" -> v.n # 0
      [] v.t = "str" -> v.s # ""
      [] v.t = "list" -> v.l # <<>>
      [] v.t = "none" -> FALSE
      [] OTHER -> TRUE

\* Python orders a number against a float; for a str, a list, a dict or None
\* "<=" raises TypeError.
Comparable(v) == v.t = "num"

\* generator.py line 295 with "<" in the place of "<=".
GeneratorRiskGateStrict(response) ==
    response.d.risk.n < risk_threshold \/ Truthy(response.d.confirmed)

\* generator.py line 295; the comparison is evaluated first.
GeneratorRiskGate(response) ==
    response.d.risk.n <= risk_threshold \/ Truthy(response.d.confirmed)

\* generator.process_user_text lines 281-316, after run_inference returned
\* response (None or the processed record).  Nothing catches the TypeError
\* of line 295: st.exc is the exception process_user_text raises.
GeneratorAfterInference(st, response, text) ==
    IF response = None THEN st
    ELSE LET logged == [st EXCEPT !.sess = AppendInference(st.sess, [source_text |-> text])]
         IN  IF ~execute THEN logged
             ELSE IF ~Comparable(response[1].d.risk)
                  THEN [logged EXCEPT !.exc = "TypeError"]
             ELSE IF GeneratorRiskGate(response[1])
                  THEN execute_commands(logged, response[1].d.commands.l, TRUE, FALSE, 0)
                  ELSE logged

\* main.process_buffer lines 346-374, for the result of process_user_text.
LoopAfterInference(st, response, text) ==
    IF response = None THEN st
    ELSE LET commands == response[1].d.commands
             logged == [st EXCEPT !.sess = AppendInference(st.sess,
                                                            [transcription_used |-> text])]
         IN  IF Truthy(commands) /\ execute
             THEN LET st2 == execute_commands(logged, commands.l, FALSE,
                                              Truthy(response[1].d.confirmed),
                                              response[1].d.risk.n)
                  IN  [st2 EXCEPT !.sess = AppendCommandEntry(st2.sess,
                                     [commands |-> commands.l, triggering_transcription |-> text])]
             ELSE logged

\* Lines 375-381 without the else branch.
DeadlineKeptWithoutInference(inference_response) ==
    IF inference_response # None THEN Some(now) ELSE wake_start_time

\* main.process_buffer lines 375-381: the timer is reset after an utterance
\* heard while awake, in the branch with an inference response and in the
\* branch without.
DeadlineAfterUtterance(inference_response) ==
    IF inference_response # None THEN Some(now) ELSE Some(now)

St(shell) == [sess |-> session_data, registry |-> last_executed_commands,
              calls |-> shell_calls, invoked |-> <<>>, exc |-> "", shell |-> shell]

\* Of the shell, an observation keeps what the pipeline has met.
ShellSeen(shell, invoked) ==
    IF \E i \in DOMAIN invoked : invoked[i] = shell.command THEN shell ELSE NoShell

(***************************************************************************)
(* The initial state: main.py lines 87-98 and 481-497.                     *)
(***************************************************************************)
NoObs == [who |-> "none", text |-> <<>>, awake |-> FALSE, signals |-> <<>>,
          woke_up |-> FALSE,
          amygdala_results |-> <<>>, accumbens_results |-> <<>>,
          accumbens_commands |-> <<>>, tools_run |-> <<>>, reply |-> None,
          llm |-> FALSE, response |-> None, invoked |-> <<>>, shell |-> NoShell]

NoLocals == [text |-> <<>>, amygdala_results |-> <<>>, accumbens_results |-> <<>>,
             tools_results |-> <<>>]

Init ==
    /\ execute \in BOOLEAN
    /\ risk_threshold \in RiskThresholds
    /\ cooldown_period \in CooldownPeriods
    /\ now = StartTime
    /\ is_awake = FALSE
    /\ wake_start_time = None
    /\ did_inference = FALSE
    /\ session_data = None
    /\ command_queue = <<>>
    /\ history_buffer = <<>>
    /\ last_executed_commands = <<>>
    /\ pc = "idle"
    /\ pending = <<>>
    /\ cur = NoLocals
    /\ hpc = "idle"
    /\ hcur = NoLocals
    /\ n_sessions = 0
    /\ n_inputs = 0
    /\ shell_calls = <<>>
    /\ reported = <<>>
    /\ last_iter = [kind |-> "none", expired |-> FALSE, refreshed |-> FALSE, sleep_sound |-> FALSE]
    /\ obs = NoObs
    /\ raw_result = PyNone
    /\ outcome = None
    /\ room_call = NoRoomCall

(***************************************************************************)
(* The environment: the clock, and whoever holds context['command_queue']. *)
(***************************************************************************)
Tick ==
    /\ pc # "exited"
    /\ now + TickSeconds <= MaxTime
    /\ now' = now + TickSeconds
    /\ UNCHANGED <<config_vars, call_vars, history_buffer, loop_vars, http_vars, session_data,
                   command_queue,
                   last_executed_commands, n_sessions, n_inputs,
                   shell_calls, reported, obs>>

EnqueueCommand ==
    /\ pc # "exited"
    /\ n_inputs < MaxInputs
    /\ \E command_text \in Texts : command_queue' = Append(command_queue, command_text)
    /\ n_inputs' = n_inputs + 1
    /\ UNCHANGED <<config_vars, call_vars, history_buffer, loop_vars, http_vars, now, session_data,
                   last_executed_commands, n_sessions, shell_calls,
                   reported, obs>>

(***************************************************************************)
(* main.process_buffer, one call per iteration of the loop of main() (lines *)
(* 542-548).  The call is cut where it awaits run_inference and where it   *)
(* awaits generate_quality_control_report.  Its other awaits (the searches, *)
(* the subprocesses, pause_media_players) are not cut: what the handler of *)
(* /command does during one of them it can do right before or right after *)
(* the step, with the same result.                                         *)
(*                                                                         *)
(* process_buffer catches no exception.  One that process_user_text raises *)
(* reaches main() (lines 551-563), which logs it, stops the audio stream   *)
(* and the web server and returns: pc = "exited", and the run is over.     *)
(***************************************************************************)
\* Line 384.
Expired ==
    is_awake /\ wake_start_time # None /\ now - wake_start_time[1] > WAKE_TIMEOUT

BeginIteration(kind) ==
    [kind |-> kind, expired |-> Expired, refreshed |-> FALSE, sleep_sound |-> FALSE]

Observation(who, locals, awake, signals, llm, reply, response, invoked) ==
    [who |-> who, text |-> locals.text, awake |-> awake, signals |-> signals,
     woke_up |-> FALSE,
     amygdala_results |-> locals.amygdala_results,
     accumbens_results |-> locals.accumbens_results,
     accumbens_commands |-> IF llm THEN combined_commands(locals.accumbens_results)
                            ELSE <<>>,
     tools_run |-> IF llm THEN ToolsRun(locals.tools_results) ELSE <<>>,
     reply |-> reply, llm |-> llm,
     response |-> response, invoked |-> invoked, shell |-> NoShell]

Locals(text, amygdala_results, accumbens_results, tools_results) ==
    [text |-> text, amygdala_results |-> amygdala_results,
     accumbens_results |-> accumbens_results, tools_results |-> tools_results]

\* Lines 220-225 and generator lines 221-243: an external command is taken
\* from the queue and searched for; is_awake=True and force_awake=True skip
\* wake detection.  Without inference process_user_text returns woke_up False
\* and no inference_response, and lines 226-247 change nothing.
ExternalCommand ==
    /\ pc = "idle"
    /\ command_queue # <<>>
    /\ command_queue' = Tail(command_queue)
    /\ session_data' = session_data
    /\ \E amygdala_results \in AmygdalaChoices, accumbens_results \in AccumbensChoices,
          tools_results \in ToolsChoices :
         LET locals == Locals(Head(command_queue), amygdala_results, accumbens_results,
                              tools_results)
         IN  IF InferenceNeeded(amygdala_results, accumbens_results)
             THEN /\ pc' = "external_inference"
                  /\ cur' = locals
                  /\ obs' = obs
             ELSE /\ pc' = "idle"
                  /\ cur' = cur
                  /\ obs' = Observation("external", locals, TRUE, <<>>, FALSE, None, None, <<>>)
    /\ last_iter' = BeginIteration("external")
    /\ UNCHANGED <<config_vars, call_vars, history_buffer, http_vars, now, is_awake, wake_start_time,
                   did_inference,
                   pending, last_executed_commands, n_sessions, n_inputs,
                   shell_calls, reported>>

\* generator lines 263-318, then main lines 226-247.  woke_up is only set by
\* wake detection, which force_awake skipped, so lines 227-242 do not run.
ExternalInferenceReturn ==
    /\ pc = "external_inference"
    /\ \E reply \in LLMReplies, shell \in Shells :
         LET response == run_inference(reply)
             st == GeneratorAfterInference(St(shell), response, cur.text)
             refresh == response # None /\ Truthy(response[1].d.commands) /\ execute
         IN  IF st.exc # ""
             THEN /\ pc' = "exited"
                  /\ session_data' = st.sess
                  /\ UNCHANGED <<last_executed_commands, shell_calls,
                                 did_inference, wake_start_time, last_iter, obs>>
             ELSE /\ pc' = "idle"
                  /\ session_data' = st.sess
                  /\ last_executed_commands' = st.registry
                  /\ shell_calls' = st.calls
                  /\ did_inference' = (response # None \/ did_inference)
                  /\ wake_start_time' = IF refresh THEN Some(now) ELSE wake_start_time
                  /\ last_iter' = [last_iter EXCEPT !.refreshed = refresh]
                  /\ obs' = [Observation("external", cur, TRUE, <<>>, TRUE, reply,
                                         response, st.invoked)
                               EXCEPT !.shell = ShellSeen(shell, st.invoked)]
    /\ cur' = NoLocals
    /\ UNCHANGED <<config_vars, call_vars, history_buffer, http_vars, now, is_awake, command_queue, pending,
                   n_sessions, n_inputs, reported>>

\* Lines 257-259: the audio buffer is empty.
EmptyBuffer ==
    /\ pc = "idle"
    /\ command_queue = <<>>
    /\ last_iter' = BeginIteration("empty")
    /\ UNCHANGED <<config_vars, call_vars, history_buffer, http_vars, now, is_awake, wake_start_time,
                   did_inference,
                   session_data, command_queue, last_executed_commands, pc, pending, cur,
                   n_sessions, n_inputs, shell_calls, reported, obs>>

\* Lines 261-270: the audio is below SILENCE_THRESHOLD.
Silence ==
    /\ pc = "idle"
    /\ command_queue = <<>>
    /\ last_iter' = BeginIteration("silence")
    /\ UNCHANGED <<config_vars, call_vars, history_buffer, http_vars, now, is_awake, wake_start_time,
                   did_inference,
                   session_data, command_queue, last_executed_commands, pc, pending, cur,
                   n_sessions, n_inputs, shell_calls, reported, obs>>

\* Lines 274-285: transcribe_audio (transcribe.py) returns [] or [text]; it
\* appends the text it returns to history_buffer.
Transcriptions == {<<>>} \cup {<<text>> : text \in Texts}

Transcribe ==
    /\ pc = "idle"
    /\ command_queue = <<>>
    /\ \E transcriptions \in Transcriptions :
         /\ n_inputs + Len(transcriptions) <= MaxInputs
         /\ pending' = transcriptions
         /\ history_buffer' = DequeExtend(history_buffer, transcriptions)
         /\ n_inputs' = n_inputs + Len(transcriptions)
    /\ pc' = "utterances"
    /\ last_iter' = BeginIteration("transcribed")
    /\ UNCHANGED <<config_vars, call_vars, http_vars, now, is_awake, wake_start_time,
                   did_inference,
                   session_data, command_queue, last_executed_commands, cur, n_sessions,
                   shell_calls, reported, obs>>

\* Lines 288-342 for an utterance heard while not awake: wake detection
\* (generator lines 189-219), then the wake-up of lines 320-342.  The call
\* has is_awake=False and force_awake=False, so process_user_text returns at
\* line 219 whether or not the utterance woke the system; were it to go on,
\* it would search and, past the gate, await run_inference.
UtteranceDormant ==
    /\ pc = "utterances"
    /\ pending # <<>>
    /\ ~is_awake
    /\ \E signals \in SignalsFor(Head(pending)) :
         LET woke_up == WakeDetected(signals)
             Returns ==
                 /\ is_awake' = woke_up
                 /\ wake_start_time' = IF woke_up THEN Some(now) ELSE wake_start_time
                 /\ session_data' = IF woke_up THEN Some(NewSession(n_sessions + 1))
                                    ELSE session_data
                 /\ n_sessions' = IF woke_up THEN n_sessions + 1 ELSE n_sessions
                 /\ last_iter' = [last_iter EXCEPT !.refreshed = @ \/ woke_up]
                 /\ obs' = [Observation("utterance", Locals(Head(pending), <<>>, <<>>, <<>>),
                                        FALSE, signals, FALSE, None, None, <<>>)
                             EXCEPT !.woke_up = woke_up]
                 /\ UNCHANGED <<pc, cur>>
         IN  IF woke_up /\ ConsidersInference(FALSE, FALSE)
             THEN \E amygdala_results \in AmygdalaChoices,
                     accumbens_results \in AccumbensChoices,
                     tools_results \in ToolsChoices :
                      IF InferenceNeeded(amygdala_results, accumbens_results)
                      THEN /\ pc' = "inference"
                           /\ cur' = Locals(Head(pending), amygdala_results,
                                            accumbens_results, tools_results)
                           /\ UNCHANGED <<is_awake, wake_start_time, session_data,
                                          n_sessions, last_iter, obs>>
                      ELSE Returns
             ELSE Returns
    /\ pending' = Tail(pending)
    /\ UNCHANGED <<config_vars, call_vars, history_buffer, http_vars, now, did_inference, command_queue,
                   last_executed_commands, n_inputs, shell_calls,
                   reported>>

\* Lines 288-315 for an utterance heard while awake: it is recorded in the
\* session, searched for (generator lines 221-243), and either skipped (main
\* lines 378-381) or sent to the model.
UtteranceAwake ==
    /\ pc = "utterances"
    /\ pending # <<>>
    /\ is_awake
    /\ \E amygdala_results \in AmygdalaChoices, accumbens_results \in AccumbensChoices,
          tools_results \in ToolsChoices :
         LET text == Head(pending)
             locals == Locals(text, amygdala_results, accumbens_results, tools_results)
             recorded == AppendTranscription(session_data, text)
         IN  /\ session_data' = recorded
             /\ history_buffer' = IF session_data # None
                                  THEN DequeAppend(history_buffer, text)
                                  ELSE history_buffer
             /\ IF InferenceNeeded(amygdala_results, accumbens_results)
                THEN /\ pc' = "inference"
                     /\ cur' = locals
                     /\ UNCHANGED <<wake_start_time, last_iter, obs>>
                ELSE /\ pc' = "utterances"
                     /\ cur' = cur
                     /\ wake_start_time' = DeadlineAfterUtterance(None)
                     /\ last_iter' = [last_iter EXCEPT !.refreshed = TRUE]
                     /\ obs' = Observation("utterance", locals, TRUE, <<>>, FALSE, None,
                                           None, <<>>)
    /\ pending' = Tail(pending)
    /\ UNCHANGED <<config_vars, call_vars, http_vars, now, is_awake, did_inference,
                   command_queue,
                   last_executed_commands, n_sessions, n_inputs, shell_calls,
                   reported>>

\* generator lines 263-318, then main lines 344-381.
InferenceReturn ==
    /\ pc = "inference"
    /\ \E reply \in LLMReplies, shell \in Shells :
         LET response == run_inference(reply)
             generated == GeneratorAfterInference(St(shell), response, cur.text)
             st == LoopAfterInference(generated, response, cur.text)
         IN  IF generated.exc # ""
             THEN /\ pc' = "exited"
                  /\ session_data' = generated.sess
                  /\ UNCHANGED <<last_executed_commands, shell_calls,
                                 did_inference, wake_start_time, last_iter, obs>>
             ELSE /\ pc' = "utterances"
                  /\ session_data' = st.sess
                  /\ last_executed_commands' = st.registry
                  /\ shell_calls' = st.calls
                  /\ did_inference' = (response # None \/ did_inference)
                  /\ obs' = [Observation("utterance", cur, TRUE, <<>>, TRUE, reply,
                                         response, st.invoked)
                               EXCEPT !.shell = ShellSeen(shell, st.invoked)]
                  /\ wake_start_time' = DeadlineAfterUtterance(response)
                  /\ last_iter' = [last_iter EXCEPT !.refreshed = TRUE]
    /\ cur' = NoLocals
    /\ UNCHANGED <<config_vars, call_vars, history_buffer, http_vars, now, is_awake, command_queue, pending,
                   n_sessions, n_inputs, reported>>

\* Lines 383-393: after the last utterance, the timeout check; an expired
\* session is finalized and passed to the reporter, which is awaited.
TimeoutCheck ==
    /\ pc = "utterances"
    /\ pending = <<>>
    /\ IF Expired /\ session_data # None
       THEN /\ session_data' = Some([session_data[1] EXCEPT
                                       !.end_time = Some(now),
                                       !.complete_transcription = Join(history_buffer)])
            /\ reported' = Append(reported, session_data[1].session_id)
            /\ pc' = "report"
            /\ UNCHANGED <<is_awake, did_inference>>
       ELSE /\ is_awake' = (is_awake /\ ~Expired)
            /\ did_inference' = (did_inference /\ ~Expired)
            /\ pc' = "idle"
            /\ UNCHANGED <<session_data, reported>>
    \* Lines 386-387: play_sleep_sound is started unless did_inference is set.
    /\ last_iter' = [last_iter EXCEPT !.sleep_sound = Expired /\ ~did_inference]
    /\ UNCHANGED <<config_vars, call_vars, history_buffer, http_vars, now, wake_start_time, command_queue,
                   last_executed_commands, pending, cur, n_sessions, n_inputs,
                   shell_calls, obs>>

\* Lines 394-396, once generate_quality_control_report has returned.
ReportReturn ==
    /\ pc = "report"
    /\ session_data' = None
    /\ is_awake' = FALSE
    /\ did_inference' = FALSE
    /\ pc' = "idle"
    /\ UNCHANGED <<config_vars, call_vars, history_buffer, http_vars, now, wake_start_time, command_queue,
                   last_executed_commands, pending, cur, n_sessions, n_inputs,
                   shell_calls, reported, last_iter, obs>>

(***************************************************************************)
(* twin/web/webserver.py handle_command: a task of the same event loop,    *)
(* started by start_webserver (main.py line 500).  It calls                *)
(* process_user_text(text, context, is_awake=True, force_awake=True).      *)
(***************************************************************************)
HttpCommand ==
    /\ pc # "exited"
    /\ hpc = "idle"
    /\ n_inputs < MaxInputs
    /\ n_inputs' = n_inputs + 1
    /\ session_data' = session_data
    /\ \E text \in Texts, amygdala_results \in AmygdalaChoices,
          accumbens_results \in AccumbensChoices, tools_results \in ToolsChoices :
         LET locals == Locals(text, amygdala_results, accumbens_results, tools_results)
         IN  IF InferenceNeeded(amygdala_results, accumbens_results)
             THEN /\ hpc' = "inference"
                  /\ hcur' = locals
                  /\ obs' = obs
             ELSE /\ hpc' = "idle"
                  /\ hcur' = hcur
                  /\ obs' = Observation("http", locals, TRUE, <<>>, FALSE, None, None, <<>>)
    /\ UNCHANGED <<config_vars, call_vars, history_buffer, loop_vars, now, command_queue,
                   last_executed_commands,
                   n_sessions, shell_calls, reported>>

\* An exception of process_user_text ends the handler (aiohttp answers 500)
\* and nothing else.
HttpInferenceReturn ==
    /\ pc # "exited"
    /\ hpc = "inference"
    /\ \E reply \in LLMReplies, shell \in Shells :
         LET response == run_inference(reply)
             st == GeneratorAfterInference(St(shell), response, hcur.text)
         IN  IF st.exc # ""
             THEN /\ session_data' = st.sess
                  /\ obs' = Observation("http", hcur, TRUE, <<>>, TRUE, reply, response,
                                        st.invoked)
                  /\ UNCHANGED <<last_executed_commands, shell_calls>>
             ELSE /\ session_data' = st.sess
                  /\ last_executed_commands' = st.registry
                  /\ shell_calls' = st.calls
                  /\ obs' = [Observation("http", hcur, TRUE, <<>>, TRUE, reply, response,
                                         st.invoked)
                               EXCEPT !.shell = ShellSeen(shell, st.invoked)]
    /\ hpc' = "idle"
    /\ hcur' = NoLocals
    /\ UNCHANGED <<config_vars, call_vars, history_buffer, loop_vars, now, command_queue, n_sessions,
                   n_inputs, reported>>

Next ==
    \/ Tick
    \/ EnqueueCommand
    \/ ExternalCommand
    \/ ExternalInferenceReturn
    \/ EmptyBuffer
    \/ Silence
    \/ Transcribe
    \/ UtteranceDormant
    \/ UtteranceAwake
    \/ InferenceReturn
    \/ TimeoutCheck
    \/ ReportReturn
    \/ HttpCommand
    \/ HttpInferenceReturn

Spec == Init /\ [][Next]_vars

(***************************************************************************)
(* Properties of the loop, the gates and the session.                      *)
(***************************************************************************)
Range(seq) == {seq[i] : i \in DOMAIN seq}

\* C1: between iterations of the loop the system is awake iff a session
\* record exists iff wake_start_time is set; the deadline is cleared whenever
\* the system is dormant.
C1_StateExclusivity ==
    pc = "idle" =>
        /\ is_awake <=> session_data # None
        /\ is_awake <=> wake_start_time # None

\* C2: the timeout comparison is made on every iteration, whatever its kind:
\* an iteration that began past the deadline and refreshed nothing ends with
\* the system dormant.
C2_TimeoutOnEveryIteration ==
    (pc = "idle" /\ last_iter.kind # "none" /\ last_iter.expired /\ ~last_iter.refreshed)
        => ~is_awake

\* The commands a response proposes, and whether it passes the risk gate.
Proposed(response) ==
    {CommandStr(response.d.commands.l[i]) : i \in DOMAIN response.d.commands.l}

PassesRisk(response) ==
    \/ response.d.risk.t = "num" /\ response.d.risk.n <= risk_threshold
    \/ response.d.confirmed = PyBool(TRUE)

\* C3, as amended: with command execution enabled (--execute), the commands
\* of an inference response are executed iff risk <= risk_threshold or
\* confirmed is true; when neither holds no command of the batch is executed.
C3_RiskGateWhenEnabled ==
    (obs.llm /\ obs.response # None /\ execute) =>
        Range(obs.invoked) = IF PassesRisk(obs.response[1])
                             THEN Proposed(obs.response[1]) ELSE {}

\* A batch of two commands above the threshold and unconfirmed has been
\* refused as a whole.
C3_BatchRefused ==
    /\ execute /\ obs.llm /\ obs.response # None
    /\ ~PassesRisk(obs.response[1])
    /\ Len(obs.response[1].d.commands.l) = 2
    /\ obs.invoked = <<>>

\* C3, as stated: for every inference response the commands are executed iff
\* risk <= risk_threshold or confirmed is true.
C3_RiskGateAlways ==
    (obs.llm /\ obs.response # None) =>
        Range(obs.invoked) = IF PassesRisk(obs.response[1])
                             THEN Proposed(obs.response[1]) ELSE {}

\* The step that finishes an utterance heard while awake: without inference
\* (lines 378-381) or once inference has returned.
ActiveUtteranceDone ==
    \/ pc = "utterances" /\ is_awake /\ pending' # pending /\ pc' = "utterances"
    \/ pc = "inference" /\ pc' = "utterances"

SemanticMatch(signal) ==
    \E k \in DOMAIN signal.wake_results :
        signal.wake_results[k][2] < WAKE_DISTANCE_THRESHOLD

FuzzyMatch(signal) ==
    \E p \in DOMAIN WAKE_PHRASES : signal.similarity[p] >= FUZZY_SIMILARITY_THRESHOLD

\* C5: a dormant utterance wakes the system only if one window of it has both
\* a semantic match below the wake threshold and a fuzzy match at or above
\* the fuzzy threshold.
C5_WakeNeedsBothOnOneWindow ==
    (obs.who = "utterance" /\ ~obs.awake /\ obs.woke_up) =>
        \E i \in DOMAIN obs.signals :
            SemanticMatch(obs.signals[i]) /\ FuzzyMatch(obs.signals[i])

\* A semantic match on one window and a fuzzy match on the other did not
\* wake the system.
C5_SplitSignalsDoNotWake ==
    /\ obs.who = "utterance" /\ ~obs.awake /\ ~obs.woke_up /\ ~is_awake
    /\ Len(obs.signals) = 2
    /\ SemanticMatch(obs.signals[1]) /\ ~FuzzyMatch(obs.signals[1])
    /\ FuzzyMatch(obs.signals[2]) /\ ~SemanticMatch(obs.signals[2])

\* C6: with a cooldown period above zero, a command string whose subprocess
\* was started at time T gets its next subprocess no sooner than T +
\* cooldown_period: a request for it made sooner starts none.
C6_CooldownSuppressesRepeat ==
    [][(/\ cooldown_period > 0
        /\ shell_calls # None
        /\ shell_calls' # shell_calls
        /\ shell_calls'[1].command = shell_calls[1].command)
          => shell_calls'[1].at - shell_calls[1].at >= cooldown_period]_vars

\* C7: for an utterance heard while awake, the LLM is invoked iff the
\* amygdala or the na collection returned a result below its threshold.
C7_InferenceIffAnyGateMatches ==
    (obs.who = "utterance" /\ obs.awake) =>
        (obs.llm <=>
            \/ \E k \in DOMAIN obs.amygdala_results :
                   obs.amygdala_results[k][2] < AMY_DISTANCE_THRESHOLD
            \/ \E k \in DOMAIN obs.accumbens_results :
                   obs.accumbens_results[k][2] < NA_DISTANCE_THRESHOLD)

\* C8: while the pipeline of an utterance or of an external command is
\* suspended at run_inference, no second pipeline is under way: the handler
\* of /command is not between its search and its own run_inference.
C8_NoConcurrentPipelines ==
    ~(pc \in {"inference", "external_inference"} /\ hpc = "inference")

\* C9: each wake-up creates one session with an id no session had before;
\* the session is not replaced while the system stays awake; it is emptied
\* only as the system goes dormant, finalized and reported exactly once.
C9_SessionLifecycle ==
    [][/\ (~is_awake /\ is_awake') => (session_data = None /\ session_data' # None)
       /\ (session_data = None /\ session_data' # None)
             => /\ ~is_awake /\ is_awake'
                /\ session_data'[1].session_id \notin Range(reported)
                /\ Len(reported) = n_sessions
                /\ n_sessions' = n_sessions + 1
       /\ (session_data # None /\ session_data' # None)
             => /\ session_data'[1].session_id = session_data[1].session_id
                /\ is_awake /\ is_awake'
       /\ (session_data # None /\ session_data' = None)
             => /\ is_awake /\ ~is_awake'
                /\ session_data[1].end_time # None
                /\ Cardinality({i \in DOMAIN reported :
                                   reported[i] = session_data[1].session_id}) = 1
      ]_vars

\* A second session is open after the first one was reported.
C9_SecondSessionOpen ==
    /\ is_awake /\ session_data # None
    /\ Len(reported) = 1
    /\ session_data[1].session_id # reported[1]

\* The step that finishes an external command: without inference, or once
\* inference has returned.
ExternalCommandDone ==
    \/ pc = "idle" /\ Len(command_queue') < Len(command_queue) /\ pc' = "idle"
    \/ pc = "external_inference" /\ pc' = "idle"

\* C11: whatever fails while an utterance or an external command is
\* processed, the loop of main() goes on: the process does not exit.
C11_LoopSurvivesPipelineFailure ==
    pc # "exited"

\* C12: an external command taken from the queue while the system is dormant
\* leaves it awake, with a session record and the timer started at the
\* current time.
C12_ExternalCommandWakes ==
    [][(ExternalCommandDone /\ ~is_awake)
          => (is_awake' /\ session_data' # None /\ wake_start_time' = Some(now))]_vars

\* The step that finishes the pipeline of an utterance, of an external
\* command or of an HTTP request whose text went to the model.
PipelineDone ==
    \/ pc = "inference" /\ pc' = "utterances"
    \/ pc = "external_inference" /\ pc' = "idle"
    \/ hpc = "inference" /\ hpc' = "idle"

\* The command strings of a batch, in list order.
BatchStrings(response) ==
    SelectSeq([i \in DOMAIN response.d.commands.l |-> CommandStr(response.d.commands.l[i])],
              LAMBDA command_str : command_str # "")

\* The entries of single commands among those a step appended to
\* commands_executed.
AppendedCommandEntries ==
    LET before == session_data[1].commands_executed
        after == session_data'[1].commands_executed
    IN  SelectSeq(SubSeq(after, Len(before) + 1, Len(after)),
                  LAMBDA entry : "success" \in DOMAIN entry)

\* C13: a batch that passed the risk gate is attempted whole and in list
\* order each time it is executed, whatever the outcome of its commands: a
\* subprocess that exits with a non-zero code or cannot be started is
\* recorded in the open session as a failure of that command, the commands
\* after it are attempted all the same, and no exception reaches the
\* caller.
C13_BatchAttemptedWhole ==
    [][(/\ PipelineDone /\ execute
        /\ obs'.llm /\ obs'.response # None
        /\ PassesRisk(obs'.response[1]))
          => LET batch == BatchStrings(obs'.response[1])
                 attempts == obs'.invoked
             IN  /\ pc' # "exited"
                 /\ attempts \in {batch, batch \o batch}
                 /\ session_data # None =>
                       AppendedCommandEntries =
                           [i \in DOMAIN attempts |->
                               CommandEntry(attempts[i],
                                            ShellAnswer(obs'.shell, attempts[i]))]]_vars

\* The first command of a batch of two has failed and the second one has
\* run and succeeded; both are in the session.
C13_SecondRunsAfterFailure ==
    /\ obs.who = "http" /\ obs.invoked = <<CmdReboot, CmdLights>>
    /\ obs.shell.answer # "exit 0"
    /\ session_data # None
    /\ LET entries == session_data[1].commands_executed
           n == Len(entries)
       IN  /\ n >= 2
           /\ entries[n - 1] = CommandEntry(CmdReboot, obs.shell.answer)
           /\ ~entries[n - 1].success
           /\ entries[n] = CommandEntry(CmdLights, "exit 0")

\* C14: when the model errors, times out or returns nothing for a text that
\* passed the inference gate, the pipeline yields the default response:
\* no commands, risk 0.5, not confirmed.
C14_DefaultResponseOnLLMFailure ==
    (obs.llm /\ (obs.reply = None \/ obs.reply = Some("")))
        => /\ obs.response # None
           /\ obs.response[1].d.commands = PyList(<<>>)
           /\ obs.response[1].d.risk = PyNum(5)
           /\ obs.response[1].d.confirmed = PyBool(FALSE)

\* The step that takes the timeout transition of a session.
TimeoutTransition ==
    pc = "utterances" /\ pending = <<>> /\ Expired /\ session_data # None /\ pc' = "report"

\* C15: at the timeout transition the sleep sound is played iff no inference
\* response was produced since the wake-up that opened the session.
C15_SleepCueIffNoInferenceInSession ==
    [][TimeoutTransition
          => (last_iter'.sleep_sound <=> session_data[1].inferences = <<>>)]_vars

\* C16: the complete_transcription of a finalized session is the utterances
\* recorded during its active window, joined in order: each once, none
\* dropped, none from before the wake-up.
C16_CompleteTranscription ==
    (session_data # None /\ session_data[1].end_time # None)
        => session_data[1].complete_transcription
               = Join(session_data[1].after_transcriptions)

\* C17: an utterance whose batch the risk gate refuses (risk above the
\* threshold, not confirmed) leaves commands_executed of the open session as
\* it was.
C17_RefusedBatchLeavesNoEntry ==
    [][(/\ pc = "inference" /\ pc' = "utterances"
        /\ session_data # None /\ session_data' # None
        /\ obs'.response # None
        /\ Truthy(obs'.response[1].d.commands)
        /\ ~PassesRisk(obs'.response[1]))
          => session_data'[1].commands_executed = session_data[1].commands_executed]_vars

\* C18: the step that hands the session to the reporter is the step that
\* makes the system dormant and clears the session: the loop does not wait
\* for the reporter to return.
C18_ReportNotAwaited ==
    [][reported' # reported => (~is_awake' /\ session_data' = None /\ pc' = "idle")]_vars

\* The step that takes an utterance from the list while the system is awake.
ActiveUtteranceTaken ==
    pc = "utterances" /\ is_awake /\ pending # <<>> /\ pending' = Tail(pending)

IsPrefix(s, t) == Len(s) <= Len(t) /\ SubSeq(t, 1, Len(s)) = s

\* C21: an utterance heard while awake is appended to after_transcriptions
\* in the step that takes it, before its search; it is the last entry while
\* its inference is awaited and its commands are executed; and as long as
\* the session is open the list only grows.
C21_RecordedBeforeProcessing ==
    [][/\ ActiveUtteranceTaken
            => /\ session_data # None /\ session_data' # None
               /\ session_data'[1].after_transcriptions
                     = Append(session_data[1].after_transcriptions, Head(pending))
       /\ pc = "inference"
            => /\ session_data # None
               /\ session_data[1].after_transcriptions # <<>>
               /\ session_data[1].after_transcriptions[
                      Len(session_data[1].after_transcriptions)] = cur.text
       /\ (session_data # None /\ session_data' # None)
            => IsPrefix(session_data[1].after_transcriptions,
                        session_data'[1].after_transcriptions)]_vars

\* The inference of an utterance is awaited, and the utterance is in the
\* session.
C21_RecordedWhileInferring ==
    /\ pc = "inference" /\ session_data # None
    /\ session_data[1].after_transcriptions = <<cur.text>>

\* C22: once a pipeline has attempted a command that was not in cooldown,
\* the registry holds the time of the attempt under that command string.
C22_AttemptRecordedInRegistry ==
    [][(PipelineDone /\ obs'.llm /\ obs'.invoked # <<>>)
          => \A i \in DOMAIN obs'.invoked :
                 /\ obs'.invoked[i] \in DOMAIN last_executed_commands'
                 /\ last_executed_commands'[obs'.invoked[i]] = now]_vars

\* C23: the session is finalized, and later cleared, only when no pipeline
\* that writes to it is suspended at its inference: neither the loop's nor
\* the one of the handler of /command.
C23_NoFinalizeDuringInference ==
    [][/\ TimeoutTransition => hpc \notin {"inference"}
       /\ (session_data # None /\ session_data' = None) => hpc \notin {"inference"}]_vars

\* The snippets of the accumbens results whose distance is below the
\* threshold of that collection.
RelevantSnippets(accumbens_results) ==
    {relevant_accumbens(accumbens_results)[i][1] :
        i \in DOMAIN relevant_accumbens(accumbens_results)}

\* C24: every candidate command placed in the prompt of an inference is the
\* snippet of a result whose distance is below the threshold of its
\* collection; a result at or above the threshold is never a candidate.
C24_CandidatesBelowThreshold ==
    \A i \in DOMAIN obs.accumbens_commands :
        /\ obs.accumbens_commands[i] \in RelevantSnippets(obs.accumbens_results)
        /\ \A j \in DOMAIN obs.accumbens_results :
              obs.accumbens_results[j][1] = obs.accumbens_commands[i]
                  => obs.accumbens_results[j][2] < NA_DISTANCE_THRESHOLD

\* The tool subprocesses started by the pipelines that wait for the model.
ToolsStartedUnderWay ==
    (IF pc \in {"inference", "external_inference"}
     THEN ToolsRun(cur.tools_results) ELSE <<>>)
    \o (IF hpc = "inference" THEN ToolsRun(hcur.tools_results) ELSE <<>>)

\* C30: with command execution disabled, processing an utterance starts no
\* command subprocess at all, neither for the commands of a response nor
\* while the tool information of the prompt is collected.
C30_NoSubprocessWithoutExecute ==
    ~execute => /\ ToolsStartedUnderWay = <<>>
                /\ obs.tools_run = <<>>
                /\ obs.invoked = <<>>
                /\ shell_calls = None

\* C28: an utterance heard while the system is dormant never reaches the
\* model and runs no command, whether or not it wakes the system: no
\* inference is awaited for the loop while the system is dormant, and the
\* pipeline of a dormant utterance ends without inference and without a
\* subprocess.
C28_DormantUtteranceNoInference ==
    /\ pc = "inference" => is_awake
    /\ (obs.who = "utterance" /\ ~obs.awake) => (~obs.llm /\ obs.invoked = <<>>)

\* An utterance has woken the system: the session is open, nothing was
\* inferred and nothing was run for it.
C28_WokenWithoutInference ==
    /\ pc = "utterances" /\ is_awake /\ session_data # None
    /\ obs.who = "utterance" /\ ~obs.awake /\ obs.woke_up
    /\ ~obs.llm /\ obs.invoked = <<>>
    /\ session_data[1].inferences = <<>>

\* How many subprocesses a pipeline started for a command string.
TimesInvoked(invoked, command_str) ==
    Cardinality({i \in DOMAIN invoked : invoked[i] = command_str})

\* C20: for an utterance whose response passes the risk gate, with execution
\* enabled and no cooldown in effect, each proposed command is passed to the
\* shell once.
C20_EachCommandOnce ==
    (/\ obs.who = "utterance" /\ obs.llm /\ obs.response # None
     /\ execute /\ PassesRisk(obs.response[1]))
        => \A command_str \in Proposed(obs.response[1]) \ {""} :
               TimesInvoked(obs.invoked, command_str) = 1

(***************************************************************************)
(* generator.process_result called on its own: on each reply text, on      *)
(* dicts with and without each of the keys it reads, and on values that    *)
(* are neither.  json_loads above decides which texts are JSON documents.  *)
(***************************************************************************)
ReplyTexts == {TxtGarbage, TxtNumber, TxtArray, TxtQuoted, TxtLow, TxtHigh,
               TxtHighConfirmed, TxtRiskWord, TxtNewFormat, TxtNoCommands, TxtFenced}

\* A dict item that is absent (None) or present with a value.
Item(key, field) == IF field = None THEN <<>> ELSE (key :> field[1])

CommandsFields == {None, Some(PyList(<<PyStr(CmdLights)>>)), Some(PyStr(CmdLights))}
CommandFields ==
    {None, Some(PyStr(CmdReboot)),
     Some(PyList(<<PyDict([command |-> PyStr(CmdReboot)]), PyStr(CmdLights), PyNum(7)>>))}
RiskFields == {None, Some(PyNum(1)), Some(PyNum(9))}
ConfirmedFields == {None, Some(PyBool(TRUE))}

DictResults ==
    {PyDict(Item("commands", cs) @@ Item("command", c) @@ Item("risk", r)
            @@ Item("confirmed", cf)) :
        cs \in CommandsFields, c \in CommandFields, r \in RiskFields,
        cf \in ConfirmedFields}

RawResults ==
    {PyStr(text) : text \in ReplyTexts} \cup DictResults
        \cup {PyNone, PyList(<<PyStr(CmdLights)>>)}

InitCall ==
    /\ execute \in BOOLEAN
    /\ risk_threshold \in RiskThresholds
    /\ cooldown_period \in CooldownPeriods
    /\ now = StartTime
    /\ is_awake = FALSE
    /\ wake_start_time = None
    /\ did_inference = FALSE
    /\ session_data = None
    /\ command_queue = <<>>
    /\ history_buffer = <<>>
    /\ last_executed_commands = <<>>
    /\ pc = "idle"
    /\ pending = <<>>
    /\ cur = NoLocals
    /\ hpc = "idle"
    /\ hcur = NoLocals
    /\ n_sessions = 0
    /\ n_inputs = 0
    /\ shell_calls = <<>>
    /\ reported = <<>>
    /\ last_iter = [kind |-> "none", expired |-> FALSE, refreshed |-> FALSE, sleep_sound |-> FALSE]
    /\ obs = NoObs
    /\ raw_result \in RawResults
    /\ outcome = None
    /\ room_call = NoRoomCall

CallProcessResult ==
    /\ outcome = None
    /\ outcome' = Some(process_result(raw_result))
    /\ UNCHANGED <<config_vars, history_buffer, loop_vars, http_vars, now, session_data, command_queue,
                   last_executed_commands, n_sessions, n_inputs, shell_calls, reported,
                   obs, raw_result, room_call>>

\* The record a call returned is the argument of the next call.
CallOnOwnOutput ==
    /\ outcome # None
    /\ outcome[1].exc = ""
    /\ raw_result' = outcome[1].v
    /\ outcome' = None
    /\ UNCHANGED <<config_vars, history_buffer, loop_vars, http_vars, now, session_data, command_queue,
                   last_executed_commands, n_sessions, n_inputs, shell_calls, reported,
                   obs, room_call>>

NextCall == CallProcessResult \/ CallOnOwnOutput

SpecProcessResult == InitCall /\ [][NextCall]_vars

\* What json.loads makes of a text.
IsJson(text) == text \in DOMAIN JsonDocuments
IsJsonObject(text) == IsJson(text) /\ JsonDocuments[text].t = "dict"

FullyPopulated(o) == o.exc = "" /\ o.v.t = "dict" /\ DOMAIN o.v.d = ResponseKeys

IsEchoFallback(o, text) ==
    /\ o.v.d.commands = PyList(<<PyStr("echo " \o text)>>)
    /\ o.v.d.risk = PyNum(5)
    /\ o.v.d.confirmed = PyBool(FALSE)

\* C10, as amended: process_result never raises and returns a record with
\* all seven fields; a text that is not valid JSON comes back as the single
\* command "echo " + text with risk 0.5 and confirmed false, and a text that
\* is valid JSON but not an object comes back with no command at all.
C10_ProcessResultTotal ==
    outcome # None =>
        /\ FullyPopulated(outcome[1])
        /\ (raw_result.t = "str" /\ ~IsJson(raw_result.s))
              => IsEchoFallback(outcome[1], raw_result.s)
        /\ (raw_result.t = "str" /\ IsJson(raw_result.s) /\ ~IsJsonObject(raw_result.s))
              => outcome[1].v = DefaultResponse

\* A text that is JSON but not an object has been normalized to no command.
C10_NonObjectJsonSeen ==
    /\ outcome # None
    /\ raw_result = PyStr(TxtNumber)
    /\ outcome[1].v.d.commands = PyList(<<>>)

\* C10, as stated: every text that is not parseable as a JSON object comes
\* back as the single command "echo " + text.
C10_EchoForEveryNonObject ==
    (outcome # None /\ raw_result.t = "str" /\ ~IsJsonObject(raw_result.s))
        => /\ FullyPopulated(outcome[1])
           /\ IsEchoFallback(outcome[1], raw_result.s)

\* The records process_result produces.
NormalizedRecords ==
    {process_result(raw).v : raw \in {r \in RawResults : process_result(r).exc = ""}}

\* C19: process_result applied to a record it produced returns that record,
\* equal in every field.
C19_Idempotent ==
    (outcome # None /\ raw_result \in NormalizedRecords)
        => outcome[1] = Returned(raw_result)

\* The record made of a reply in the new format ("command") has been
\* normalized a second time.
C19_NewFormatRenormalized ==
    /\ outcome # None
    /\ raw_result = process_result(PyStr(TxtNewFormat)).v
    /\ raw_result.d.commands.l # <<>>
    /\ outcome[1] = Returned(raw_result)

\* C27: every record process_result returns has a number between 0 and 1
\* for risk and a bool for confirmed.
C27_RiskAndConfirmedTyped ==
    (outcome # None /\ outcome[1].exc = "")
        => /\ outcome[1].v.d.risk.t = "num"
           /\ outcome[1].v.d.risk.n >= 0 /\ outcome[1].v.d.risk.n <= 10
           /\ outcome[1].v.d.confirmed.t = "bool"

(***************************************************************************)
(* The web handler under the risk thresholds around the risk of the        *)
(* fallback response: RISK_THRESHOLD is read from the environment.         *)
(***************************************************************************)
FallbackThresholds == {4, 5, 6}

InitWeb ==
    /\ execute \in BOOLEAN
    /\ risk_threshold \in FallbackThresholds
    /\ cooldown_period \in CooldownPeriods
    /\ now = StartTime
    /\ is_awake = FALSE
    /\ wake_start_time = None
    /\ did_inference = FALSE
    /\ session_data = None
    /\ command_queue = <<>>
    /\ history_buffer = <<>>
    /\ last_executed_commands = <<>>
    /\ pc = "idle"
    /\ pending = <<>>
    /\ cur = NoLocals
    /\ hpc = "idle"
    /\ hcur = NoLocals
    /\ n_sessions = 0
    /\ n_inputs = 0
    /\ shell_calls = <<>>
    /\ reported = <<>>
    /\ last_iter = [kind |-> "none", expired |-> FALSE, refreshed |-> FALSE, sleep_sound |-> FALSE]
    /\ obs = NoObs
    /\ raw_result = PyNone
    /\ outcome = None
    /\ room_call = NoRoomCall

NextWeb == HttpCommand \/ HttpInferenceReturn

SpecWeb == InitWeb /\ [][NextWeb]_vars

\* A pipeline ended whose model reply was not valid JSON.
UnparseableReplyDone == obs.llm /\ obs.reply = Some(TxtGarbage)

\* C29: the fallback response built from a reply that is not valid JSON
\* (commands = ["echo " + raw], risk 0.5, confirmed false) passes the risk
\* gate exactly when the configured threshold is at least 0.5; with
\* execution enabled the echo of the raw text is then started as a shell
\* command, and otherwise nothing is started.
C29_FallbackPassesAtDefaultThreshold ==
    UnparseableReplyDone =>
        /\ obs.response = Some(FallbackResponse(TxtGarbage))
        /\ GeneratorRiskGate(obs.response[1]) <=> risk_threshold >= 5
        /\ obs.invoked # <<>> <=> execute /\ risk_threshold >= 5
        /\ \A i \in DOMAIN obs.invoked : obs.invoked[i] = "echo " \o TxtGarbage

\* With execution enabled and the threshold at 0.5 the echo of the raw reply
\* was started.
C29_RawTextEchoed ==
    /\ UnparseableReplyDone
    /\ execute /\ risk_threshold = 5
    /\ obs.invoked # <<>>
    /\ obs.invoked[1] = "echo " \o TxtGarbage

(***************************************************************************)
(* command.execute_single_command on its own, up to the cooldown check:    *)
(* the room placeholder and the angle brackets of one command.             *)
(***************************************************************************)
\* Command strings: with the room placeholder in a lights command and in
\* another command, with another placeholder before it, with nested and
\* with lone angle brackets, and without any.
RoomCommands ==
    {<<"lights", "--room", "<", "room_name", ">">>,
     <<"fan", "--room", "<", "room_name", ">">>,
     <<"thermostat", "<", "level", ">", "--room", "<", "room_name", ">">>,
     <<"fan", "<", "level", ">", "<", "speed", ">">>,
     <<"echo", "<", "<", "a", ">", ">", "out">>,
     <<"echo", ">", "out", "<", "in">>,
     <<"lights", "--power", "on">>}

\* context and self_text: whether a room manager is in the context, the
\* after_transcriptions of the session (None without a session), the
\* detected location, the room words of self_text, and the answer of
\* validate_room_command.
RoomContexts ==
    [room_manager : BOOLEAN,
     transcriptions : {None, Some(<<>>), Some(<<"kitchen">>), Some(<<"kitchen", "">>)},
     detected_location : {"", "bedroom"},
     self_text : {{}, {"media"}, {"kitchen", "media"}},
     valid : BOOLEAN]

InitRoom ==
    /\ execute \in BOOLEAN
    /\ risk_threshold \in RiskThresholds
    /\ cooldown_period \in CooldownPeriods
    /\ now = StartTime
    /\ is_awake = FALSE
    /\ wake_start_time = None
    /\ did_inference = FALSE
    /\ session_data = None
    /\ command_queue = <<>>
    /\ history_buffer = <<>>
    /\ last_executed_commands = <<>>
    /\ pc = "idle"
    /\ pending = <<>>
    /\ cur = NoLocals
    /\ hpc = "idle"
    /\ hcur = NoLocals
    /\ n_sessions = 0
    /\ n_inputs = 0
    /\ shell_calls = <<>>
    /\ reported = <<>>
    /\ last_iter = [kind |-> "none", expired |-> FALSE, refreshed |-> FALSE, sleep_sound |-> FALSE]
    /\ obs = NoObs
    /\ raw_result = PyNone
    /\ outcome = None
    /\ \E command_str \in RoomCommands, ctx \in RoomContexts :
         room_call = [command_str |-> command_str, ctx |-> ctx, prepared |-> None]

CallPrepareCommand ==
    /\ room_call.prepared = None
    /\ room_call' = [room_call EXCEPT
                       !.prepared = Some(PrepareCommand(room_call.command_str,
                                                        room_call.ctx))]
    /\ UNCHANGED <<config_vars, history_buffer, loop_vars, http_vars, now, session_data,
                   command_queue, last_executed_commands, n_sessions, n_inputs,
                   shell_calls, reported, obs, raw_result, outcome>>

NextRoom == CallPrepareCommand

SpecRoom == InitRoom /\ [][NextRoom]_vars

\* A command went on to the cooldown check and the shell.
HandedOn == room_call.prepared # None /\ ~room_call.prepared[1].refused

\* The command string that went on.
Handed == room_call.prepared[1].command_str

HasAnglePlaceholder(command_str) ==
    \E i, j \in DOMAIN command_str :
        i < j /\ command_str[i] = "<" /\ command_str[j] = ">"

\* C26: no command string that goes on to the shell contains an
\* angle-bracket placeholder <...>: whatever is left of them after the room
\* was filled in has been replaced by "office".
C26_NoPlaceholderReachesShell ==
    HandedOn => ~HasAnglePlaceholder(Handed)

\* A command with two placeholders other than the room went on with
\* "office" in the place of each.
C26_PlaceholdersReplaced ==
    /\ HandedOn
    /\ room_call.command_str = <<"fan", "<", "level", ">", "<", "speed", ">">>
    /\ Handed = <<"fan", "office", "office">>

====
